---- MODULE Spec2Model ----
(***************************************************************************)
(* ResGuard resource allocator (src/res.py): the ledger (resources,        *)
(* allocation, max_claim), the Banker's-algorithm check is_safe_state, the *)
(* operations request_resource, release_resource and update_max_claim run  *)
(* by web worker threads under the global mutex, the system_monitor thread *)
(* and the dashboard callback update_graphs.                               *)
(*                                                                         *)
(* Quantities are Python floats in the source.  The model counts them in   *)
(* tenths of a unit (0.1 CPU core = 1, 0.5 GB of memory = 5): on the       *)
(* quantities sampled here (CPU up to 0.2, memory 0, 0.4, 0.5) the float   *)
(* sums, differences and comparisons of the code are exact.  SpecFloat     *)
(* below keeps the IEEE-754 rounding of += 0.1 and -= 0.1 on one cell.     *)
(***************************************************************************)
EXTENDS Integers, Sequences, FiniteSets, TLC

\* ------------------------------------------------------------------ bounds
\* CPU readings of the probe are sampled up to MaxProbe tenths of a core.
MaxProbe == 1
\* CPU max-claim inputs are sampled up to MaxClaim tenths of a core.
MaxClaim == 1
\* Calls that can be blocked at the mutex at one time.
MaxWaiting == 1

\* ------------------------------------------------------- program constants
\* users (line 23), in dictionary order; the model keeps the first two.
Users == <<"admin", "User1">>
UserSet == {Users[i] : i \in 1..Len(Users)}

\* resources (lines 17-22); the model keeps CPU and Memory.
Kinds == <<"CPU", "Memory">>
KindSet == {Kinds[i] : i \in 1..Len(Kinds)}

\* allocation_amount / release_amount (lines 189-197, 240-248), in tenths.
AllocationAmount(resource) ==
    IF resource = "CPU" THEN 1
    ELSE IF resource = "Memory" THEN 5
    ELSE IF resource = "Disk" THEN 10
    ELSE IF resource = "Network" THEN 50
    ELSE 1

\* Floor of the CPU reading: max(0.1, ...) at line 40, in tenths.
CpuFloor == 1

VARIABLES
    resources,   \* resources[res]: the available vector (lines 17-22)
    allocation,  \* allocation[user][res] (line 24)
    max_claim,   \* max_claim[user][res] (line 25)
    mutex,       \* who is inside "with mutex": a worker, the monitor, nobody
    pc,          \* position of the worker inside the mutex, of the monitor,
                 \* and whether the program has been asked to close
    waiting,     \* number of calls blocked at "with mutex"
    op,          \* the call the worker inside the mutex is executing
    result,      \* the value that call is returning
    pre,         \* the ledger a request found when it took the mutex, and
                 \* the figures its is_safe_state probed
    overlap      \* a call in flight while another request was granted, and
                 \* the allocations that request left

vars == <<resources, allocation, max_claim, mutex, pc, waiting, op, result,
          pre, overlap>>

NoOp == [name |-> "none"]
NoPre == [taken |-> FALSE]
NoOverlap == [state |-> "none"]
Free == "free"

Ledger == [resources |-> resources, allocation |-> allocation,
           max_claim |-> max_claim, gate |-> resources, taken |-> TRUE]

Max(a, b) == IF a >= b THEN a ELSE b

\* ------------------------------------------------------------- the probe
\* What psutil can report for one kind.  CPU: every tenth up to MaxProbe.
\* The other kinds: nothing, just short of one allocation step, one step.
RawReadings(res) ==
    IF res = "CPU" THEN 0..MaxProbe
    ELSE {0, AllocationAmount(res) - 1, AllocationAmount(res)}

\* The reading stored as it came, the CPU figure not floored.
update_system_resources_raw(raw) == raw

\* update_system_resources (lines 36-55): the reading replaces resources;
\* the CPU figure is floored at 0.1.
update_system_resources(raw) ==
    [res \in KindSet |->
        IF res = "CPU" THEN Max(CpuFloor, raw[res]) ELSE raw[res]]

RawVectors ==
    {raw \in [KindSet -> UNION {RawReadings(res) : res \in KindSet}] :
        \A res \in KindSet : raw[res] \in RawReadings(res)}

\* Every value the available vector can take after a probe.
Probes == {update_system_resources(raw) : raw \in RawVectors}

\* new_max inputs of update_max_claim.  CPU: every tenth up to MaxClaim.
\* The other kinds: nothing or one allocation step.
NewMaxInputs(res) ==
    IF res = "CPU" THEN 0..MaxClaim ELSE {0, AllocationAmount(res)}

\* ----------------------------------------------------- Banker's algorithm
\* The size of the difference in the place of the difference.
NeedMagnitude(user, res, alloc, maxc) ==
    IF maxc[user][res] >= alloc[user][res]
    THEN maxc[user][res] - alloc[user][res]
    ELSE alloc[user][res] - maxc[user][res]

\* need[user][res] (line 147).
Need(user, res, alloc, maxc) == maxc[user][res] - alloc[user][res]

\* The inner loop left after the first kind, whatever the comparison said.
CanAllocateFirstKind(user, work, alloc, maxc) ==
    ~(Need(user, Kinds[1], alloc, maxc) > work[Kinds[1]])

\* can_allocate (lines 157-161).
CanAllocate(user, work, alloc, maxc) ==
    \A res \in KindSet : ~(Need(user, res, alloc, maxc) > work[res])

\* One pass of the for loop over users (lines 154-169).
RECURSIVE ScanUsers(_, _, _, _, _)
ScanUsers(us, i, st, alloc, maxc) ==
    IF i > Len(us) THEN st
    ELSE LET user == us[i] IN
         IF ~st.finish[user] /\ CanAllocate(user, st.work, alloc, maxc)
         THEN ScanUsers(us, i + 1,
                  [work   |-> [res \in KindSet |->
                                  st.work[res] + alloc[user][res]],
                   finish |-> [st.finish EXCEPT ![user] = TRUE],
                   safe_sequence |-> Append(st.safe_sequence, user),
                   found  |-> TRUE],
                  alloc, maxc)
         ELSE ScanUsers(us, i + 1, st, alloc, maxc)

\* A single pass only: the while loop stopped after its first pass.
PassLoopOnce(us, st, alloc, maxc) ==
    ScanUsers(us, 1, [st EXCEPT !.found = FALSE], alloc, maxc)

\* while True ... if not found: break (lines 152-172).
RECURSIVE PassLoop(_, _, _, _)
PassLoop(us, st, alloc, maxc) ==
    LET after == ScanUsers(us, 1, [st EXCEPT !.found = FALSE], alloc, maxc)
    IN IF ~after.found THEN after ELSE PassLoop(us, after, alloc, maxc)

\* The number of times the body of the while loop runs (lines 152-172),
\* the pass that finds nobody included.
RECURSIVE PassCount(_, _, _, _)
PassCount(us, st, alloc, maxc) ==
    LET after == ScanUsers(us, 1, [st EXCEPT !.found = FALSE], alloc, maxc)
    IN IF ~after.found THEN 1 ELSE 1 + PassCount(us, after, alloc, maxc)

\* work, finish and safe_sequence when the while loop ends (lines 139-172).
Finish(us, avail, alloc, maxc) ==
    PassLoop(us, [work   |-> avail,
                  finish |-> [user \in {us[i] : i \in 1..Len(us)} |-> FALSE],
                  safe_sequence |-> <<>>,
                  found  |-> FALSE], alloc, maxc)

\* The sequence built so far returned whatever the verdict.
is_safe_state_partial(us, avail, alloc, maxc) ==
    LET fin == Finish(us, avail, alloc, maxc)
    IN [is_safe |-> \A user \in DOMAIN fin.finish : fin.finish[user],
        safe_sequence |-> fin.safe_sequence]

\* is_safe_state after its probe (lines 139-177): the verdict and, when
\* safe, the sequence.
is_safe_state(us, avail, alloc, maxc) ==
    LET fin == Finish(us, avail, alloc, maxc)
        is_safe == \A user \in DOMAIN fin.finish : fin.finish[user]
    IN [is_safe |-> is_safe,
        safe_sequence |-> IF is_safe THEN fin.safe_sequence ELSE <<>>]

\* any(finish.values()) in the place of all(finish.values()).
IsSafeAny(avail, alloc, maxc) ==
    \E user \in UserSet : Finish(Users, avail, alloc, maxc).finish[user]

\* The verdict of is_safe_state over the registered users.
IsSafe(avail, alloc, maxc) == is_safe_state(Users, avail, alloc, maxc).is_safe

\* ------------------------------------------------------------ the checks
\* resources[resource] <= 0 (line 184).
NoUnits(avail, resource) == avail[resource] <= 0

\* The comparison against zero instead of the increment.
NotEnoughZero(avail, resource) == avail[resource] < 0

\* resources[resource] < allocation_amount (line 200).
NotEnough(avail, resource) == avail[resource] < AllocationAmount(resource)

\* The increment alone compared with the claim, the allocation forgotten.
ExceedsMaxClaimAmountOnly(alloc, maxc, user, resource) ==
    AllocationAmount(resource) > maxc[user][resource]

\* The comparison without the increment.
ExceedsMaxClaimNoStep(alloc, maxc, user, resource) ==
    alloc[user][resource] > maxc[user][resource]

\* allocation + allocation_amount > max_claim (line 206).
ExceedsMaxClaim(alloc, maxc, user, resource) ==
    alloc[user][resource] + AllocationAmount(resource) > maxc[user][resource]

\* allocation[user][resource] += allocation_amount (line 212).
Allocate(alloc, user, resource) ==
    [alloc EXCEPT ![user][resource] = @ + AllocationAmount(resource)]

\* allocation[user][resource] -= amount (lines 232 and 251).
Deallocate(alloc, user, resource) ==
    [alloc EXCEPT ![user][resource] = @ - AllocationAmount(resource)]

\* The allocation compared with zero, not with the amount released.
CanReleaseNonNegative(alloc, user, resource) ==
    alloc[user][resource] >= 0

\* The comparison made strict.
CanReleaseStrict(alloc, user, resource) ==
    alloc[user][resource] > AllocationAmount(resource)

\* allocation[user][resource] >= release_amount (line 250).
CanRelease(alloc, user, resource) ==
    alloc[user][resource] >= AllocationAmount(resource)

\* Only the sign of new_max is validated.
BelowZero(alloc, user, resource, new_max) ==
    new_max < 0

\* new_max < allocation[user][resource] (line 269).
BelowAllocation(alloc, user, resource, new_max) ==
    new_max < alloc[user][resource]

\* The claim is only ever raised.
SetMaxClaimKeepHigher(maxc, user, resource, new_max) ==
    [maxc EXCEPT ![user][resource] = Max(@, new_max)]

\* max_claim[user][resource] = new_max (line 275).
SetMaxClaim(maxc, user, resource, new_max) ==
    [maxc EXCEPT ![user][resource] = new_max]

\* ------------------------------------------------------------------ Init
\* The module globals (lines 15-25): everything zero, the mutex free.
Init ==
    /\ resources = [res \in KindSet |-> 0]
    /\ allocation = [user \in UserSet |-> [res \in KindSet |-> 0]]
    /\ max_claim = [user \in UserSet |-> [res \in KindSet |-> 0]]
    /\ mutex = Free
    /\ pc = [worker |-> "out", monitor |-> "sleep", main |-> "serving"]
    /\ waiting = 0
    /\ op = NoOp
    /\ result = "none"
    /\ pre = NoPre
    /\ overlap = NoOverlap

\* --------------------------------------------------------- worker threads
\* A web callback calls one of the three operations (lines 548, 550, 582)
\* on its own server thread; the call blocks at "with mutex".
Call ==
    /\ waiting < MaxWaiting
    /\ waiting' = waiting + 1
    /\ UNCHANGED <<resources, allocation, max_claim, mutex, pc, op, result,
                   pre, overlap>>

\* "with mutex" (lines 180, 238, 265): one blocked call gets the lock.
Enter(call) ==
    /\ waiting > 0
    /\ mutex = Free
    /\ mutex' = "worker"
    /\ waiting' = waiting - 1
    /\ op' = call
    /\ overlap' = IF overlap.state = "waiting"
                   THEN [overlap EXCEPT !.state = "running"]
                   ELSE NoOverlap

\* The claim check made before the availability checks.
RequestStartClaimFirst(user, resource, p) ==
    /\ Enter([name |-> "request", user |-> user, resource |-> resource])
    /\ resources' = p
    /\ IF ExceedsMaxClaim(allocation, max_claim, user, resource)
       THEN /\ result' = "ClaimExceeded"
            /\ pc' = [pc EXCEPT !.worker = "ret"]
            /\ UNCHANGED <<allocation, pre>>
       ELSE IF NoUnits(p, resource) \/ NotEnough(p, resource)
       THEN /\ result' = "InsufficientAvailability"
            /\ pc' = [pc EXCEPT !.worker = "ret"]
            /\ UNCHANGED <<allocation, pre>>
       ELSE /\ allocation' = Allocate(allocation, user, resource)
            /\ pc' = [pc EXCEPT !.worker = "gate"]
            /\ pre' = Ledger
            /\ UNCHANGED result
    /\ UNCHANGED max_claim

\* request_resource, lines 180-212: take the mutex, probe, the three
\* checks, the tentative allocation.
RequestStart(user, resource, p) ==
    /\ Enter([name |-> "request", user |-> user, resource |-> resource])
    /\ resources' = p
    /\ IF resource \notin KindSet
       THEN \* resources[resource] raises KeyError (line 184)
            /\ result' = "KeyError"
            /\ pc' = [pc EXCEPT !.worker = "ret"]
            /\ UNCHANGED <<allocation, pre>>
       ELSE IF NoUnits(p, resource) \/ NotEnough(p, resource)
       THEN /\ result' = "InsufficientAvailability"
            /\ pc' = [pc EXCEPT !.worker = "ret"]
            /\ UNCHANGED <<allocation, pre>>
       ELSE IF user \notin UserSet
       THEN \* allocation[user] raises KeyError (line 206)
            /\ result' = "KeyError"
            /\ pc' = [pc EXCEPT !.worker = "ret"]
            /\ UNCHANGED <<allocation, pre>>
       ELSE IF ExceedsMaxClaim(allocation, max_claim, user, resource)
       THEN /\ result' = "ClaimExceeded"
            /\ pc' = [pc EXCEPT !.worker = "ret"]
            /\ UNCHANGED <<allocation, pre>>
       ELSE /\ allocation' = Allocate(allocation, user, resource)
            /\ pc' = [pc EXCEPT !.worker = "gate"]
            /\ pre' = Ledger
            /\ UNCHANGED result
    /\ UNCHANGED max_claim

\* request_resource, lines 215-217 and 230-235: is_safe_state probes again
\* and decides; an unsafe verdict reverts the allocation.
RequestGate(p) ==
    /\ pc.worker = "gate"
    /\ resources' = p
    /\ pre' = [pre EXCEPT !.gate = p]
    /\ IF IsSafe(p, allocation, max_claim)
       THEN /\ pc' = [pc EXCEPT !.worker = "commit"]
            /\ UNCHANGED <<allocation, result>>
       ELSE /\ allocation' = Deallocate(allocation, op.user, op.resource)
            /\ result' = "WouldCauseUnsafeState"
            /\ pc' = [pc EXCEPT !.worker = "ret"]
    /\ UNCHANGED <<max_claim, mutex, waiting, op, overlap>>

\* request_resource, lines 218-229: the logs, check_resource_usage (which
\* probes a third time, line 108), save_state, the success result.
RequestCommit(p) ==
    /\ pc.worker = "commit"
    /\ resources' = p
    /\ result' = "ok"
    /\ pc' = [pc EXCEPT !.worker = "ret"]
    /\ UNCHANGED <<allocation, max_claim, mutex, waiting, op, pre, overlap>>

\* release_resource, lines 238-262.  is_safe_state (line 254) probes; its
\* verdict only chooses a log line.
release_resource(user, resource, p) ==
    /\ Enter([name |-> "release", user |-> user, resource |-> resource])
    /\ IF user \notin UserSet \/ resource \notin KindSet
       THEN \* allocation[user][resource] raises KeyError (line 250)
            /\ result' = "KeyError"
            /\ UNCHANGED <<allocation, resources>>
       ELSE IF CanRelease(allocation, user, resource)
       THEN /\ allocation' = Deallocate(allocation, user, resource)
            /\ resources' = p
            /\ result' = "ok"
       ELSE /\ result' = "InsufficientAllocationToRelease"
            /\ UNCHANGED <<allocation, resources>>
    /\ pc' = [pc EXCEPT !.worker = "ret"]
    /\ UNCHANGED <<max_claim, pre>>

\* update_max_claim, lines 265-289.  The new claim is written before
\* is_safe_state (line 279) probes, and stays whatever the verdict.
update_max_claim(user, resource, new_max, p) ==
    /\ Enter([name |-> "update_max_claim", user |-> user,
              resource |-> resource, new_max |-> new_max])
    /\ IF user \notin UserSet \/ resource \notin KindSet
       THEN \* allocation[user][resource] raises KeyError (line 269); the
            \* except clause of line 290 catches ValueError only
            /\ result' = "KeyError"
            /\ UNCHANGED <<max_claim, resources>>
       ELSE IF BelowAllocation(allocation, user, resource, new_max)
       THEN /\ result' = "MaxClaimBelowCurrentAllocation"
            /\ UNCHANGED <<max_claim, resources>>
       ELSE /\ max_claim' = SetMaxClaim(max_claim, user, resource, new_max)
            /\ resources' = p
            /\ result' =
                  IF IsSafe(p, allocation,
                            SetMaxClaim(max_claim, user, resource, new_max))
                  THEN "ok" ELSE "ok_unsafe_warning"
    /\ pc' = [pc EXCEPT !.worker = "ret"]
    /\ UNCHANGED <<allocation, pre>>

\* The caller has the result and the mutex is still held.
ReturnHoldingLock ==
    /\ pc.worker = "ret"
    /\ pc' = [pc EXCEPT !.worker = "out"]
    /\ op' = NoOp
    /\ result' = "none"
    /\ pre' = NoPre
    /\ overlap' = NoOverlap
    /\ UNCHANGED <<resources, allocation, max_claim, waiting, mutex>>

\* The return statement, or an exception on its way out, leaves the with
\* block: the mutex is released and the caller has the result.
Return ==
    /\ pc.worker = "ret"
    /\ mutex' = Free
    /\ pc' = [pc EXCEPT !.worker = "out"]
    /\ op' = NoOp
    /\ result' = "none"
    /\ pre' = NoPre
    /\ overlap' = IF op.name = "request" /\ result = "ok" /\ waiting > 0
                   THEN [state |-> "waiting", allocation |-> allocation]
                   ELSE NoOverlap
    /\ UNCHANGED <<resources, allocation, max_claim, waiting>>

\* ------------------------------------------------------------ the monitor
\* system_monitor, lines 297-305: after the sleep, take the mutex, keep
\* the old vector, probe, log the changes above 10%.
MonitorTick(p) ==
    /\ pc.monitor = "sleep"
    /\ mutex = Free
    /\ mutex' = "monitor"
    /\ resources' = p
    /\ pc' = [pc EXCEPT !.monitor = "check"]
    /\ UNCHANGED <<allocation, max_claim, waiting, op, result, pre, overlap>>

\* An unsafe verdict answered by taking every allocation back.
MonitorCheckReclaim(p) ==
    /\ pc.monitor = "check"
    /\ resources' = p
    /\ mutex' = Free
    /\ pc' = [pc EXCEPT !.monitor = "sleep"]
    /\ allocation' = IF IsSafe(p, allocation, max_claim) THEN allocation
                     ELSE [user \in UserSet |-> [res \in KindSet |-> 0]]
    /\ UNCHANGED <<max_claim, waiting, op, result, pre, overlap>>

\* The sleep of line 297 written inside the with block: back to sleep
\* with the mutex still held.
MonitorCheckHoldingLock(p) ==
    /\ pc.monitor = "check"
    /\ resources' = p
    /\ pc' = [pc EXCEPT !.monitor = "sleep"]
    /\ UNCHANGED <<allocation, max_claim, mutex, waiting, op, result, pre,
                   overlap>>

\* system_monitor, lines 308-310: is_safe_state probes again, an unsafe
\* verdict is logged, the with block ends.
MonitorCheck(p) ==
    /\ pc.monitor = "check"
    /\ resources' = p
    /\ mutex' = Free
    /\ pc' = [pc EXCEPT !.monitor = "sleep"]
    /\ UNCHANGED <<allocation, max_claim, waiting, op, result, pre, overlap>>

\* ---------------------------------------------------------- the dashboard
\* update_graphs, lines 634-745: update_system_resources() (line 636) and
\* is_safe_state() (line 745, probing again at line 136), both outside
\* any lock; resources ends as the last reading.
update_graphs(p) ==
    /\ resources' = p
    /\ UNCHANGED <<allocation, max_claim, mutex, pc, waiting, op, result, pre,
                   overlap>>

Next ==
    \/ Call
    \/ \E user \in UserSet, resource \in KindSet, p \in Probes :
            RequestStart(user, resource, p)
    \/ \E p \in Probes : RequestGate(p)
    \/ \E p \in Probes : RequestCommit(p)
    \/ \E user \in UserSet, resource \in KindSet, p \in Probes :
            release_resource(user, resource, p)
    \/ \E user \in UserSet, resource \in KindSet, p \in Probes :
            \E new_max \in NewMaxInputs(resource) :
                update_max_claim(user, resource, new_max, p)
    \/ Return
    \/ \E p \in Probes : MonitorTick(p)
    \/ \E p \in Probes : MonitorCheck(p)
    \/ \E p \in Probes : update_graphs(p)

Spec == Init /\ [][Next]_vars

\* A thread inside "with mutex" runs straight-line code apart from the
\* bounded loops of is_safe_state: once it holds the mutex, a scheduler
\* that lets it run takes it through its next step.
SpecFair ==
    /\ Init
    /\ [][Next]_vars
    /\ WF_vars(\E p \in Probes : RequestGate(p))
    /\ WF_vars(\E p \in Probes : RequestCommit(p))
    /\ WF_vars(Return)
    /\ WF_vars(\E p \in Probes : MonitorCheck(p))

\* ------------------------------------------------------------ shutdown
\* on_close (lines 772-774), the one shutdown handler of the source:
\* save_state() and root.destroy().  It sets no flag and wakes nobody;
\* system_monitor (line 295, while True) reads nothing it could set.
on_close ==
    /\ pc.main = "serving"
    /\ pc' = [pc EXCEPT !.main = "closed"]
    /\ UNCHANGED <<resources, allocation, max_claim, mutex, waiting, op,
                   result, pre, overlap>>

NextShutdown == Next \/ on_close

\* The monitor thread is scheduled: when its sleep is over and the mutex
\* stays free it takes it, and inside the with block it runs on.
SpecShutdown ==
    /\ Init
    /\ [][NextShutdown]_vars
    /\ WF_vars(\E p \in Probes : MonitorTick(p))
    /\ WF_vars(\E p \in Probes : MonitorCheck(p))

\* ------------------------------------------- callers with unknown names
\* The same program when the callbacks also pass names that are not keys
\* of users or resources: the user of a client-side store (line 911) and
\* the value of a dropdown with nothing selected (lines 532, 912).
AnyUser == UserSet \cup {"guest"}
AnyKind == KindSet \cup {"GPU"}

NextAnyName ==
    \/ Call
    \/ \E user \in AnyUser, resource \in AnyKind, p \in Probes :
            RequestStart(user, resource, p)
    \/ \E p \in Probes : RequestGate(p)
    \/ \E p \in Probes : RequestCommit(p)
    \/ \E user \in AnyUser, resource \in AnyKind, p \in Probes :
            release_resource(user, resource, p)
    \/ \E user \in AnyUser, resource \in AnyKind, p \in Probes :
            \E new_max \in NewMaxInputs(resource) :
                update_max_claim(user, resource, new_max, p)
    \/ Return
    \/ \E p \in Probes : MonitorTick(p)
    \/ \E p \in Probes : MonitorCheck(p)
    \/ \E p \in Probes : update_graphs(p)

SpecAnyName == Init /\ [][NextAnyName]_vars

\* ------------------------------------------------- a probe that fails
\* A psutil call of update_system_resources raises.  The kinds are
\* assigned one after the other (lines 40, 44, 48, 53): when the reading
\* of the i-th kind raises, the kinds before it hold the new reading and
\* the others the old one.  A point past the last kind stands for a failure
\* in the readings that follow Memory (Disk, Network).
FailurePoints == 1..(Len(Kinds) + 1)

ProbeFailsAt(old, p, i) ==
    [res \in KindSet |->
        IF \E j \in 1..(i - 1) : Kinds[j] = res THEN p[res] ELSE old[res]]

\* request_resource, line 181 raises: nothing catches it, the exception
\* leaves the with block and reaches the caller.
RequestStartProbeFails(user, resource, p, i) ==
    /\ Enter([name |-> "request", user |-> user, resource |-> resource])
    /\ resources' = ProbeFailsAt(resources, p, i)
    /\ result' = "ProbeError"
    /\ pc' = [pc EXCEPT !.worker = "ret"]
    /\ pre' = Ledger
    /\ UNCHANGED <<allocation, max_claim>>

\* request_resource, line 215: is_safe_state raises at line 136, after the
\* tentative allocation of line 212; lines 230-235 are not reached.
RequestGateProbeFails(p, i) ==
    /\ pc.worker = "gate"
    /\ resources' = ProbeFailsAt(resources, p, i)
    /\ result' = "ProbeError"
    /\ pc' = [pc EXCEPT !.worker = "ret"]
    /\ UNCHANGED <<allocation, max_claim, mutex, waiting, op, pre, overlap>>

\* request_resource, line 222: check_resource_usage raises at line 108;
\* save_state and the success result are not reached.
RequestCommitProbeFails(p, i) ==
    /\ pc.worker = "commit"
    /\ resources' = ProbeFailsAt(resources, p, i)
    /\ result' = "ProbeError"
    /\ pc' = [pc EXCEPT !.worker = "ret"]
    /\ UNCHANGED <<allocation, max_claim, mutex, waiting, op, pre, overlap>>

\* release_resource, line 254: is_safe_state raises after the allocation
\* has been lowered at line 251.
ReleaseProbeFails(user, resource, p, i) ==
    /\ Enter([name |-> "release", user |-> user, resource |-> resource])
    /\ CanRelease(allocation, user, resource)
    /\ allocation' = Deallocate(allocation, user, resource)
    /\ resources' = ProbeFailsAt(resources, p, i)
    /\ result' = "ProbeError"
    /\ pc' = [pc EXCEPT !.worker = "ret"]
    /\ UNCHANGED <<max_claim, pre>>

\* update_max_claim, line 279: is_safe_state raises after the claim has
\* been written at line 275; the except clause catches ValueError only.
MaxClaimProbeFails(user, resource, new_max, p, i) ==
    /\ Enter([name |-> "update_max_claim", user |-> user,
              resource |-> resource, new_max |-> new_max])
    /\ ~BelowAllocation(allocation, user, resource, new_max)
    /\ max_claim' = SetMaxClaim(max_claim, user, resource, new_max)
    /\ resources' = ProbeFailsAt(resources, p, i)
    /\ result' = "ProbeError"
    /\ pc' = [pc EXCEPT !.worker = "ret"]
    /\ UNCHANGED <<allocation, pre>>

\* system_monitor, line 300 raises: the with block is left (the mutex,
\* taken and released within this step, is free again) and the except
\* clause of line 311 has the exception.
MonitorTickProbeFails(p, i) ==
    /\ pc.monitor = "sleep"
    /\ mutex = Free
    /\ resources' = ProbeFailsAt(resources, p, i)
    /\ pc' = [pc EXCEPT !.monitor = "failed"]
    /\ UNCHANGED <<allocation, max_claim, mutex, waiting, op, result, pre,
                   overlap>>

\* system_monitor, line 308: is_safe_state raises at line 136.
MonitorCheckProbeFails(p, i) ==
    /\ pc.monitor = "check"
    /\ resources' = ProbeFailsAt(resources, p, i)
    /\ mutex' = Free
    /\ pc' = [pc EXCEPT !.monitor = "failed"]
    /\ UNCHANGED <<allocation, max_claim, waiting, op, result, pre, overlap>>

\* system_monitor, lines 311-312: the exception is printed and the while
\* loop goes round to the sleep.
MonitorRecover ==
    /\ pc.monitor = "failed"
    /\ pc' = [pc EXCEPT !.monitor = "sleep"]
    /\ UNCHANGED <<resources, allocation, max_claim, mutex, waiting, op,
                   result, pre, overlap>>

NextProbeFailure ==
    \/ Next
    \/ \E user \in UserSet, resource \in KindSet, p \in Probes :
            \E i \in FailurePoints : RequestStartProbeFails(user, resource, p, i)
    \/ \E p \in Probes, i \in FailurePoints : RequestGateProbeFails(p, i)
    \/ \E p \in Probes, i \in FailurePoints : RequestCommitProbeFails(p, i)
    \/ \E user \in UserSet, resource \in KindSet, p \in Probes :
            \E i \in FailurePoints : ReleaseProbeFails(user, resource, p, i)
    \/ \E user \in UserSet, resource \in KindSet, p \in Probes :
            \E new_max \in NewMaxInputs(resource), i \in FailurePoints :
                MaxClaimProbeFails(user, resource, new_max, p, i)
    \/ \E p \in Probes, i \in FailurePoints : MonitorTickProbeFails(p, i)
    \/ \E p \in Probes, i \in FailurePoints : MonitorCheckProbeFails(p, i)
    \/ MonitorRecover

SpecProbeFailure == Init /\ [][NextProbeFailure]_vars

\* ------------------------------------------------ the allocation table
\* update_user_allocations (lines 597-610), a dashboard callback fired by
\* the interval timer on a server thread of its own: it reads the rows of
\* allocation[user] with no lock.  pc.reader keeps the row it rendered
\* and whether a request stood between its tentative allocation (line
\* 212) and its verdict while it read.
NoView == [seen |-> FALSE]

InitReader ==
    /\ resources = [res \in KindSet |-> 0]
    /\ allocation = [user \in UserSet |-> [res \in KindSet |-> 0]]
    /\ max_claim = [user \in UserSet |-> [res \in KindSet |-> 0]]
    /\ mutex = Free
    /\ pc = [worker |-> "out", monitor |-> "sleep", main |-> "serving",
             reader |-> NoView]
    /\ waiting = 0
    /\ op = NoOp
    /\ result = "none"
    /\ pre = NoPre
    /\ overlap = NoOverlap

update_user_allocations(user) ==
    /\ pc' = [pc EXCEPT !.reader = [seen |-> TRUE, user |-> user,
                                    shown |-> allocation[user],
                                    tentative |-> pc.worker = "gate"]]
    /\ UNCHANGED <<resources, allocation, max_claim, mutex, waiting, op,
                   result, pre, overlap>>

NextReader ==
    \/ Next
    \/ \E user \in UserSet : update_user_allocations(user)

SpecReader == InitReader /\ [][NextReader]_vars

\* ------------------------------------------- the checker as a function
\* is_safe_state applied to ledgers drawn from a bounded set: three users,
\* both kinds, every quantity up to MaxQty, allocations within the claims.
MaxQty == 1

SafetyUsers == <<"admin", "User1", "User2">>
SafetyUserSet == {SafetyUsers[i] : i \in 1..Len(SafetyUsers)}

InitSafety ==
    /\ resources \in [KindSet -> 0..MaxQty]
    /\ allocation \in [SafetyUserSet -> [KindSet -> 0..MaxQty]]
    /\ max_claim \in [SafetyUserSet -> [KindSet -> 0..MaxQty]]
    /\ \A user \in SafetyUserSet, res \in KindSet :
            allocation[user][res] <= max_claim[user][res]
    /\ mutex = Free
    /\ pc = [worker |-> "out", monitor |-> "sleep", main |-> "serving"]
    /\ waiting = 0
    /\ op = NoOp
    /\ result = "none"
    /\ pre = NoPre
    /\ overlap = NoOverlap

\* users held in a set: the for loop may meet them in any order.
SetOrder(us) ==
    {order \in [1..Len(us) -> {us[i] : i \in 1..Len(us)}] :
        \A i, j \in 1..Len(us) : order[i] = order[j] => i = j}

\* for user in users (lines 144, 154): users is a dict (line 23) and a dict
\* is iterated in insertion order, the same at every evaluation.
DictOrder(us) == {us}

\* One evaluation of is_safe_state on the ledger (lines 139-177).
EvaluateSafety ==
    /\ op = NoOp
    /\ op' = [name |-> "is_safe_state"]
    /\ \E order \in DictOrder(SafetyUsers) :
            result' = is_safe_state(order, resources, allocation, max_claim)
    /\ UNCHANGED <<resources, allocation, max_claim, mutex, pc, waiting,
                   pre, overlap>>

\* A second evaluation with nothing in between, the probe (line 136)
\* reporting the figures it reported to the first; pre keeps the first
\* result.
EvaluateAgain ==
    /\ op.name = "is_safe_state"
    /\ op' = [name |-> "is_safe_state_again"]
    /\ pre' = [taken |-> TRUE, result |-> result]
    /\ \E order \in DictOrder(SafetyUsers) :
            result' = is_safe_state(order, resources, allocation, max_claim)
    /\ UNCHANGED <<resources, allocation, max_claim, mutex, pc, waiting,
                   overlap>>

NextSafety == EvaluateSafety \/ EvaluateAgain

SpecSafety == InitSafety /\ [][NextSafety]_vars

\* ------------------------------------------------ the ledger as loaded
\* load_state (lines 58-83, called at start-up, line 1088) takes
\* allocation from STATE_FILE and max_claim from MAX_CLAIM_FILE, or, that
\* file missing, sets every claim to 70% of the total of the kind; neither
\* path compares a claim with the allocation beside it, so an allocation
\* may stand above its claim.  The quantities are those the code can
\* hold: a probe reads nothing below zero (lines 40-53) and no operation
\* takes an allocation below zero.
InitLoaded ==
    /\ resources \in [KindSet -> 0..MaxQty]
    /\ allocation \in [UserSet -> [KindSet -> 0..MaxQty]]
    /\ max_claim \in [UserSet -> [KindSet -> 0..MaxQty]]
    /\ mutex = Free
    /\ pc = [worker |-> "out", monitor |-> "sleep", main |-> "serving"]
    /\ waiting = 0
    /\ op = NoOp
    /\ result = "none"
    /\ pre = NoPre
    /\ overlap = NoOverlap

\* One evaluation of is_safe_state on the loaded ledger (lines 139-177);
\* pre keeps finish as the while loop left it (line 172).
EvaluateLoaded ==
    /\ op = NoOp
    /\ op' = [name |-> "is_safe_state"]
    /\ \E order \in DictOrder(Users) :
            /\ result' = is_safe_state(order, resources, allocation, max_claim)
            /\ pre' = [taken |-> TRUE,
                       finish |-> Finish(order, resources, allocation,
                                         max_claim).finish]
    /\ UNCHANGED <<resources, allocation, max_claim, mutex, pc, waiting,
                   overlap>>

NextLoaded == EvaluateLoaded

SpecLoaded == InitLoaded /\ [][NextLoaded]_vars

\* ------------------------------------------------- one client, in turn
\* Three users, CPU max claims of 0.7, 0.5 and 0.3 core (seven, five and
\* three increments) set through update_max_claim, nothing allocated, and
\* a machine that reports one free core (ten increments) at every probe.
ScenarioClaims == [admin |-> 7, User1 |-> 5, User2 |-> 3]

ScenarioProbe ==
    update_system_resources([res \in KindSet |->
                                IF res = "CPU" THEN 10 ELSE 0])

InitScenario ==
    /\ resources = ScenarioProbe
    /\ allocation = [user \in SafetyUserSet |-> [res \in KindSet |-> 0]]
    /\ max_claim = [user \in SafetyUserSet |->
                        [res \in KindSet |->
                            IF res = "CPU" THEN ScenarioClaims[user] ELSE 0]]
    /\ mutex = Free
    /\ pc = [worker |-> "out", monitor |-> "sleep", main |-> "serving"]
    /\ waiting = 0
    /\ op = NoOp
    /\ result = "none"
    /\ pre = NoPre
    /\ overlap = NoOverlap

\* request_resource (lines 180-235) run from entry to return with no other
\* thread in between, every probe reporting ScenarioProbe.  pre keeps the
\* allocations the call found and what is_safe_state returned at line 215.
ScenarioRequest(user, resource) ==
    /\ mutex = Free
    /\ pc.worker = "out"
    /\ mutex' = "worker"
    /\ pc' = [pc EXCEPT !.worker = "ret"]
    /\ op' = [name |-> "request", user |-> user, resource |-> resource]
    /\ resources' = ScenarioProbe
    /\ IF NoUnits(ScenarioProbe, resource) \/ NotEnough(ScenarioProbe, resource)
       THEN /\ result' = "InsufficientAvailability"
            /\ UNCHANGED <<allocation, pre>>
       ELSE IF ExceedsMaxClaim(allocation, max_claim, user, resource)
       THEN /\ result' = "ClaimExceeded"
            /\ UNCHANGED <<allocation, pre>>
       ELSE LET tentative == Allocate(allocation, user, resource)
                verdict == is_safe_state(SafetyUsers, ScenarioProbe,
                                         tentative, max_claim)
            IN /\ pre' = [taken |-> TRUE, allocation |-> allocation,
                          verdict |-> verdict]
               /\ IF verdict.is_safe
                  THEN /\ allocation' = tentative
                       /\ result' = "ok"
                  ELSE /\ allocation' = Deallocate(tentative, user, resource)
                       /\ result' = "WouldCauseUnsafeState"
    /\ UNCHANGED <<max_claim, waiting, overlap>>

NextScenario ==
    \/ \E user \in SafetyUserSet, resource \in KindSet :
            ScenarioRequest(user, resource)
    \/ Return

SpecScenario == InitScenario /\ [][NextScenario]_vars

\* ------------------------------------------ the arithmetic of one cell
\* allocation[user]["CPU"] as the IEEE-754 double it is in the source.  A
\* double d >= 0 is the pair <<hi, lo>> with d = (hi * 2^28 + lo) * 2^-56;
\* every value met below 4.0 is a whole number of 2^-56.
MaxFloatClaim == 1

FBase == 2 ^ 28
FZero == <<0, 0>>
\* 0.1 (line 190) is the double 0x1999999999999A * 2^-56.
FTenth == <<26843545, 161061274>>
\* The CPU max claim of every user: MaxFloatClaim cores.
FloatClaim == <<MaxFloatClaim * FBase, 0>>

FLess(x, y) == x[1] < y[1] \/ (x[1] = y[1] /\ x[2] < y[2])

\* Round to 53 significant bits, ties to even.
FRound(hi, lo) ==
    LET k == IF hi < 2 ^ 25 THEN 0 ELSE IF hi < 2 ^ 26 THEN 1
             ELSE IF hi < 2 ^ 27 THEN 2 ELSE IF hi < 2 ^ 28 THEN 3
             ELSE IF hi < 2 ^ 29 THEN 4 ELSE 5
        q == 2 ^ k
        r == lo % q
        up == k > 0 /\ (2 * r > q \/ (2 * r = q /\ (lo \div q) % 2 = 1))
        newlo == IF up THEN lo - r + q ELSE lo - r
    IN IF newlo = FBase THEN <<hi + 1, 0>> ELSE <<hi, newlo>>

\* x + y on doubles.
FAdd(x, y) ==
    FRound(x[1] + y[1] + ((x[2] + y[2]) \div FBase), (x[2] + y[2]) % FBase)

\* x - y on doubles, x >= y.
FSub(x, y) ==
    IF x[2] < y[2] THEN FRound(x[1] - y[1] - 1, x[2] - y[2] + FBase)
    ELSE FRound(x[1] - y[1], x[2] - y[2])

InitFloat ==
    /\ resources = update_system_resources([res \in KindSet |-> 0])
    /\ allocation = [user \in UserSet |-> [res \in KindSet |-> FZero]]
    /\ max_claim = [user \in UserSet |-> [res \in KindSet |-> FloatClaim]]
    /\ mutex = Free
    /\ pc = [worker |-> "out", monitor |-> "sleep", main |-> "serving"]
    /\ waiting = 0
    /\ op = NoOp
    /\ result = "none"
    /\ pre = NoPre
    /\ overlap = NoOverlap

\* request_resource for CPU, lines 206-235, on doubles.  safe is the
\* verdict of is_safe_state at line 215: it follows the figures probed
\* there, which are open, so both verdicts are possible.  resources is
\* held at one reading, so that only the arithmetic can move the ledger.
FloatRequest(user, safe) ==
    /\ mutex = Free
    /\ mutex' = "worker"
    /\ op' = [name |-> "request", user |-> user, resource |-> "CPU"]
    /\ pre' = Ledger
    /\ pc' = [pc EXCEPT !.worker = "ret"]
    /\ LET tentative == FAdd(allocation[user]["CPU"], FTenth) IN
       IF FLess(max_claim[user]["CPU"], tentative)
       THEN /\ result' = "ClaimExceeded"
            /\ UNCHANGED allocation
       ELSE IF safe
       THEN /\ result' = "ok"
            /\ allocation' = [allocation EXCEPT ![user]["CPU"] = tentative]
       ELSE /\ result' = "WouldCauseUnsafeState"
            /\ allocation' = [allocation EXCEPT ![user]["CPU"] =
                                  FSub(tentative, FTenth)]
    /\ UNCHANGED <<resources, max_claim, waiting, overlap>>

\* release_resource for CPU, lines 250-262, on doubles.
FloatRelease(user) ==
    /\ mutex = Free
    /\ mutex' = "worker"
    /\ op' = [name |-> "release", user |-> user, resource |-> "CPU"]
    /\ pc' = [pc EXCEPT !.worker = "ret"]
    /\ IF ~FLess(allocation[user]["CPU"], FTenth)
       THEN /\ result' = "ok"
            /\ allocation' = [allocation EXCEPT ![user]["CPU"] =
                                  FSub(@, FTenth)]
       ELSE /\ result' = "InsufficientAllocationToRelease"
            /\ UNCHANGED allocation
    /\ UNCHANGED <<resources, max_claim, waiting, pre, overlap>>

NextFloat ==
    \/ \E user \in UserSet, safe \in BOOLEAN : FloatRequest(user, safe)
    \/ \E user \in UserSet : FloatRelease(user)
    \/ Return

SpecFloat == InitFloat /\ [][NextFloat]_vars

\* ------------------------------------------------- the drift test
\* Line 304, abs(resources[res] - old_resources[res]) >
\* old_resources[res] * 0.1, as Python evaluates it: on IEEE-754 doubles,
\* every operation rounded to 53 significant bits, ties to even.  A
\* natural number is the sequence of its digits in base 2^14, lowest
\* first; a double d >= 0 is the natural d * 2^DriftScale, whole for every
\* double met here.
MaxDrift == 2

DriftScale == 70

Limb == 2 ^ 14

RECURSIVE Limbs(_)
Limbs(n) == IF n = 0 THEN <<>> ELSE <<n % Limb>> \o Limbs(n \div Limb)

RECURSIVE Trim(_)
Trim(x) ==
    IF x = <<>> THEN <<>>
    ELSE IF x[Len(x)] = 0 THEN Trim(SubSeq(x, 1, Len(x) - 1)) ELSE x

Digit(x, i) == IF i <= Len(x) THEN x[i] ELSE 0

RECURSIVE AddFrom(_, _, _, _)
AddFrom(x, y, i, carry) ==
    IF i > Max(Len(x), Len(y))
    THEN IF carry > 0 THEN <<carry>> ELSE <<>>
    ELSE LET sum == Digit(x, i) + Digit(y, i) + carry
         IN <<sum % Limb>> \o AddFrom(x, y, i + 1, sum \div Limb)

BAdd(x, y) == AddFrom(x, y, 1, 0)

RECURSIVE SubFrom(_, _, _, _)
SubFrom(x, y, i, borrow) ==
    IF i > Len(x) THEN <<>>
    ELSE LET d == Digit(x, i) - Digit(y, i) - borrow
         IN <<IF d < 0 THEN d + Limb ELSE d>>
                \o SubFrom(x, y, i + 1, IF d < 0 THEN 1 ELSE 0)

\* x - y for x >= y.
BSub(x, y) == Trim(SubFrom(x, y, 1, 0))

RECURSIVE LessFrom(_, _, _)
LessFrom(x, y, i) ==
    IF i = 0 THEN FALSE
    ELSE IF x[i] # y[i] THEN x[i] < y[i] ELSE LessFrom(x, y, i - 1)

BLess(x, y) ==
    LET a == Trim(x)
        b == Trim(y)
    IN IF Len(a) # Len(b) THEN Len(a) < Len(b) ELSE LessFrom(a, b, Len(a))

\* x times a single digit m.
RECURSIVE MulFrom(_, _, _, _)
MulFrom(x, m, i, carry) ==
    IF i > Len(x)
    THEN IF carry > 0 THEN <<carry>> ELSE <<>>
    ELSE LET prod == x[i] * m + carry
         IN <<prod % Limb>> \o MulFrom(x, m, i + 1, prod \div Limb)

ShiftDigits(x, k) == [i \in 1..k |-> 0] \o x

RECURSIVE BMul(_, _)
BMul(x, y) ==
    IF y = <<>> THEN <<>>
    ELSE BAdd(MulFrom(x, Head(y), 1, 0), ShiftDigits(BMul(x, Tail(y)), 1))

\* Quotient and remainder of x by a small m, highest digit first.
RECURSIVE DivFrom(_, _, _, _)
DivFrom(x, m, i, rem) ==
    IF i = 0 THEN [q |-> <<>>, r |-> rem]
    ELSE LET now == rem * Limb + x[i]
             rest == DivFrom(x, m, i - 1, now % m)
         IN [q |-> Append(rest.q, now \div m), r |-> rest.r]

DivSmall(x, m) == DivFrom(x, m, Len(x), 0)

\* x * 2^k and x divided by 2^k, the bits shifted out dropped.
ShiftLeft(x, k) == ShiftDigits(MulFrom(x, 2 ^ (k % 14), 1, 0), k \div 14)

ShiftRight(x, k) ==
    LET a == SubSeq(x, (k \div 14) + 1, Len(x))
        r == k % 14
    IN Trim([i \in 1..Len(a) |->
                (a[i] \div 2 ^ r) + (Digit(a, i + 1) % 2 ^ r) * 2 ^ (14 - r)])

\* The number of significant bits of x.
BitLen(x) ==
    LET a == Trim(x)
    IN IF a = <<>> THEN 0
       ELSE 14 * (Len(a) - 1)
              + (CHOOSE k \in 1..14 :
                    2 ^ (k - 1) <= a[Len(a)] /\ a[Len(a)] < 2 ^ k)

\* x, or a value just above x when more is set, rounded to 53
\* significant bits, ties to even.
RoundDouble(x, more) ==
    LET drop == BitLen(x) - 53
    IN IF drop <= 0 THEN Trim(x)
       ELSE LET top == ShiftRight(x, drop)
                rem == BSub(x, ShiftLeft(top, drop))
                half == ShiftLeft(<<1>>, drop - 1)
                up == \/ BLess(half, rem)
                      \/ rem = half /\ (more \/ top[1] % 2 = 1)
            IN ShiftLeft(IF up THEN BAdd(top, <<1>>) ELSE top, drop)

\* The double nearest to h hundredths: what round(x, 2) returns (lines 44,
\* 48, 53), what an integral percentage divided by 100 gives (line 40),
\* and, for h = 10, the literal 0.1.
ToDouble(h) ==
    IF h = 0 THEN <<>>
    ELSE LET d == DivSmall(ShiftLeft(Limbs(h), DriftScale), 100)
         IN RoundDouble(d.q, d.r # 0)

\* The test of line 304 on two readings given in hundredths.
Drift(old, new) ==
    LET o == ToDouble(old)
        n == ToDouble(new)
        change == RoundDouble(IF BLess(n, o) THEN BSub(o, n) ELSE BSub(n, o),
                              FALSE)
        tenth == RoundDouble(BMul(o, ToDouble(10)), FALSE)
    IN BLess(tenth, ShiftLeft(change, DriftScale))

\* Readings around 1.00 in steps of 0.05.
DriftReadings == {100 + 5 * k : k \in (0 - MaxDrift)..MaxDrift}

DriftProbes == [KindSet -> DriftReadings]

\* In this specification resources[res] is a number of hundredths.
InitDrift ==
    /\ resources \in DriftProbes
    /\ allocation = [user \in UserSet |-> [res \in KindSet |-> 0]]
    /\ max_claim = [user \in UserSet |-> [res \in KindSet |-> 0]]
    /\ mutex = Free
    /\ pc = [worker |-> "out", monitor |-> "sleep", main |-> "serving"]
    /\ waiting = 0
    /\ op = NoOp
    /\ result = "none"
    /\ pre = NoPre
    /\ overlap = NoOverlap

\* system_monitor, lines 297-305: old_resources is kept in pre, result is
\* the set of kinds for which line 305 logs a change.
DriftTick(p) ==
    /\ pc.monitor = "sleep"
    /\ mutex = Free
    /\ mutex' = "monitor"
    /\ pre' = [taken |-> TRUE, resources |-> resources]
    /\ resources' = p
    /\ op' = [name |-> "system_monitor"]
    /\ result' = {res \in KindSet : Drift(resources[res], p[res])}
    /\ pc' = [pc EXCEPT !.monitor = "check"]
    /\ UNCHANGED <<allocation, max_claim, waiting, overlap>>

\* system_monitor, lines 307-310: is_safe_state probes again; the with
\* block ends and old_resources is gone.
DriftCheck(p) ==
    /\ pc.monitor = "check"
    /\ resources' = p
    /\ mutex' = Free
    /\ op' = NoOp
    /\ result' = "none"
    /\ pre' = NoPre
    /\ pc' = [pc EXCEPT !.monitor = "sleep"]
    /\ UNCHANGED <<allocation, max_claim, waiting, overlap>>

NextDrift ==
    \/ \E p \in DriftProbes : DriftTick(p)
    \/ \E p \in DriftProbes : DriftCheck(p)

SpecDrift == InitDrift /\ [][NextDrift]_vars

\* ------------------------------------------------- the log and the files
\* log_event (lines 98-105) appends to logs and rewrites LOG_FILE;
\* save_state (lines 85-96) rewrites the three files.  Neither changes the
\* ledger, so each is the set of steps whose code calls it: the call
\* sites in request_resource (185, 202, 208, 218-219, 228, 234),
\* release_resource (252, 257, 261), update_max_claim (271, 276, 281-282,
\* 287-288) and system_monitor (305, 310).  The quantities of the model
\* are whole steps of a kind, so a reading changes by nothing or by far
\* more than a tenth and the test of line 304 is exact on them.
log_event ==
    \/ /\ op.name = "none"
       /\ op'.name = "request"
       /\ result' \in {"InsufficientAvailability", "ClaimExceeded"}
    \/ pc.worker = "gate" /\ pc'.worker = "ret"
    \/ pc.worker = "commit" /\ pc'.worker = "ret"
    \/ /\ op.name = "none"
       /\ op'.name = "release"
       /\ result' \in {"ok", "InsufficientAllocationToRelease"}
    \/ /\ op.name = "none"
       /\ op'.name = "update_max_claim"
       /\ result' \in {"MaxClaimBelowCurrentAllocation", "ok",
                       "ok_unsafe_warning"}
    \/ /\ pc.monitor = "sleep"
       /\ pc'.monitor = "check"
       /\ \E res \in KindSet :
             10 * (Max(resources'[res], resources[res])
                   - (resources'[res] + resources[res]
                      - Max(resources'[res], resources[res])))
                 > resources[res]
    \/ /\ pc.monitor = "check"
       /\ pc'.monitor = "sleep"
       /\ ~IsSafe(resources', allocation, max_claim)

save_state ==
    \/ pc.worker = "commit" /\ pc'.worker = "ret"
    \/ op.name = "none" /\ op'.name = "release" /\ result' = "ok"
    \/ /\ op.name = "none"
       /\ op'.name = "update_max_claim"
       /\ result' \in {"ok", "ok_unsafe_warning"}

\* ================================================================ claims
\* The call inside the mutex is about to return this outcome.
AtReturn(name, outcome) ==
    pc.worker = "ret" /\ op.name = name /\ result = outcome

\* This step is the first step of a call of this operation.
Starts(name) == op.name = "none" /\ op'.name = name

\* The allocations of one kind added over the registered users.
RECURSIVE SumFrom(_, _, _)
SumFrom(alloc, res, i) ==
    IF i > Len(Users) THEN 0
    ELSE alloc[Users[i]][res] + SumFrom(alloc, res, i + 1)

Sum(alloc, res) == SumFrom(alloc, res, 1)

\* Every ordering of a set of users.
Orders(userset) ==
    {order \in [1..Cardinality(userset) -> userset] :
        \A i, j \in 1..Cardinality(userset) : order[i] = order[j] => i = j}

\* Taken in this order, every user finds its remaining need covered by what
\* is available plus what the users before it have returned.
RECURSIVE FeasibleFrom(_, _, _, _, _)
FeasibleFrom(order, i, work, alloc, maxc) ==
    IF i > Len(order) THEN TRUE
    ELSE /\ \A res \in KindSet :
                maxc[order[i]][res] - alloc[order[i]][res] <= work[res]
         /\ FeasibleFrom(order, i + 1,
                [res \in KindSet |-> work[res] + alloc[order[i]][res]],
                alloc, maxc)

\* Some ordering of all the users is feasible.
Completable(userset, avail, alloc, maxc) ==
    \E order \in Orders(userset) : FeasibleFrom(order, 1, avail, alloc, maxc)

\* ---------------------------------------------------------------- C1
\* C1 as stated: whenever a request is returning success, is_safe_state
\* on the ledger it leaves (available, allocation, max_claim) says safe.
C1_RequestLeavesSafe ==
    AtReturn("request", "ok") => IsSafe(resources, allocation, max_claim)

\* C1, amended: whenever a request is returning success, a completion
\* order of all users exists for the new allocations, the max claims and
\* the availability figures its safety check probed (line 136).
C1_GateFoundCompletable ==
    AtReturn("request", "ok") =>
        Completable(UserSet, pre.gate, allocation, max_claim)

\* A granted request while another user still has a claim outstanding and
\* the available vector has moved on from the figures the gate saw.
C1_Witness ==
    /\ AtReturn("request", "ok")
    /\ resources # pre.gate
    /\ \E user \in UserSet \ {op.user}, res \in KindSet :
            Need(user, res, allocation, max_claim) > 0

\* ---------------------------------------------------------------- C2
\* C2: whenever a request is returning WouldCauseUnsafeState, the ledger
\* is the one the call found: every allocation, every max claim and the
\* available vector.
C2_DeniedLeavesLedger ==
    AtReturn("request", "WouldCauseUnsafeState") =>
        /\ allocation = pre.allocation
        /\ max_claim = pre.max_claim
        /\ resources = pre.resources

\* ---------------------------------------------------------------- C3
\* C3, in the case kindest to it (the probe reports the same figures all
\* through the call): a granted request and a successful release leave
\* available[k] + the sum of allocation[.][k] unchanged for every kind k.
C3_Conservation ==
    [][/\ (/\ pc.worker = "commit" /\ result' = "ok"
           /\ resources' = pre.resources /\ pre.gate = pre.resources)
          => \A res \in KindSet :
                resources'[res] + Sum(allocation', res)
                    = pre.resources[res] + Sum(pre.allocation, res)
       /\ (Starts("release") /\ result' = "ok" /\ resources' = resources)
          => \A res \in KindSet :
                resources'[res] + Sum(allocation', res)
                    = resources[res] + Sum(allocation, res)]_vars

\* ---------------------------------------------------------------- C4
\* C4: in every state, 0 <= allocation[u][k] <= max_claim[u][k] for every
\* user u and kind k.
C4_BoundedAllocation ==
    \A user \in UserSet, res \in KindSet :
        /\ 0 <= allocation[user][res]
        /\ allocation[user][res] <= max_claim[user][res]

\* A request refused at the claim check by a user holding its whole claim.
C4_Witness ==
    /\ AtReturn("request", "ClaimExceeded")
    /\ allocation[op.user][op.resource] > 0
    /\ allocation[op.user][op.resource] = max_claim[op.user][op.resource]

\* ---------------------------------------------------------------- C5
\* C5: is_safe_state reports safe exactly when some ordering of all the
\* users exists in which each one's need is covered by the available
\* vector plus the allocations of the users before it.
C5_GreedyIsExact ==
    op.name = "is_safe_state" =>
        (result.is_safe <=>
            Completable(SafetyUserSet, resources, allocation, max_claim))

\* A safe verdict whose sequence is not the registration order: the first
\* user only finished in a later pass of the while loop.
C5_Witness ==
    /\ op.name = "is_safe_state"
    /\ result.is_safe
    /\ result.safe_sequence = <<"User2", "admin", "User1">>

\* ---------------------------------------------------------------- C6
\* C6, in the case kindest to it (the probe reports the same figures): a
\* successful release from a ledger for which is_safe_state says safe
\* leaves a ledger for which it says safe.
C6_ReleaseKeepsSafe ==
    [][(/\ Starts("release") /\ result' = "ok" /\ resources' = resources
        /\ IsSafe(resources, allocation, max_claim))
       => IsSafe(resources', allocation', max_claim')]_vars

\* ---------------------------------------------------------------- C7
\* C7: a release returns success exactly when allocation[u][k] is at least
\* the decrement, whatever is_safe_state says; it then lowers that
\* allocation by the decrement, and otherwise it is refused for the
\* allocation alone and changes nothing.
C7_ReleaseIffAllocated ==
    [][Starts("release") =>
        LET user == op'.user
            res == op'.resource
        IN /\ (result' = "ok") <=>
                    (allocation[user][res] >= AllocationAmount(res))
           /\ result' = "ok" =>
                allocation' = [allocation EXCEPT ![user][res] =
                                    @ - AllocationAmount(res)]
           /\ result' # "ok" =>
                /\ result' = "InsufficientAllocationToRelease"
                /\ allocation' = allocation]_vars

\* A release returning success although the ledger it leaves is unsafe.
C7_Witness ==
    /\ AtReturn("release", "ok")
    /\ ~IsSafe(resources, allocation, max_claim)

\* ---------------------------------------------------------------- C8
\* C8: no step changes resources, allocation or max_claim unless the mutex
\* is held when the step begins or when it ends.
C8_WritesUnderLock ==
    [][(resources' # resources \/ allocation' # allocation
            \/ max_claim' # max_claim)
       => (mutex # Free \/ mutex' # Free)]_vars

\* ---------------------------------------------------------------- C9
\* C9 as stated: when a request that was in flight while another request
\* was granted is itself returning success, is_safe_state on the ledger
\* says safe.
C9_ConcurrentRequestsSafe ==
    (AtReturn("request", "ok") /\ overlap.state = "running")
        => IsSafe(resources, allocation, max_claim)

\* C9, amended: when a request that was in flight while another request
\* was granted is itself returning success, the allocations are those the
\* earlier request left plus its own increment, and a completion order of
\* all users exists for them under the figures its safety check probed.
C9_LaterGateSeesBoth ==
    (AtReturn("request", "ok") /\ overlap.state = "running") =>
        /\ allocation = [overlap.allocation EXCEPT ![op.user][op.resource] =
                            @ + AllocationAmount(op.resource)]
        /\ Completable(UserSet, pre.gate, allocation, max_claim)

\* Two overlapping requests by different users, both granted.
C9_Witness ==
    /\ AtReturn("request", "ok")
    /\ overlap.state = "running"
    /\ \E user \in UserSet \ {op.user}, res \in KindSet :
            overlap.allocation[user][res] > 0

\* ---------------------------------------------------------------- C10
\* C10 as stated: a request that begins while available[k] is below the
\* increment returns InsufficientAvailability and leaves the ledger as it
\* was.
C10_Original ==
    [][(Starts("request")
            /\ resources[op'.resource] < AllocationAmount(op'.resource))
       => /\ result' = "InsufficientAvailability"
          /\ resources' = resources
          /\ allocation' = allocation
          /\ max_claim' = max_claim]_vars

\* C10, amended: a request whose probe on entry (line 181) reports less
\* than the increment of its kind returns InsufficientAvailability and
\* leaves every allocation and every max claim as it was.
C10_ProbedBelowIncrement ==
    [][(Starts("request")
            /\ resources'[op'.resource] < AllocationAmount(op'.resource))
       => /\ result' = "InsufficientAvailability"
          /\ allocation' = allocation
          /\ max_claim' = max_claim]_vars

\* A memory request refused with some memory free, less than one step.
C10_Witness ==
    /\ AtReturn("request", "InsufficientAvailability")
    /\ op.resource = "Memory"
    /\ resources["Memory"] > 0
    /\ resources["Memory"] < AllocationAmount("Memory")

\* ---------------------------------------------------------------- C11
\* C11: a request whose probe reports enough of the kind and whose
\* allocation plus the increment is above the max claim returns
\* ClaimExceeded at once (it never reaches the tentative allocation) and
\* leaves every allocation and every max claim as it was.
C11_ClaimExceeded ==
    [][(/\ Starts("request")
        /\ resources'[op'.resource] >= AllocationAmount(op'.resource)
        /\ allocation[op'.user][op'.resource] + AllocationAmount(op'.resource)
                > max_claim[op'.user][op'.resource])
       => /\ result' = "ClaimExceeded"
          /\ pc'.worker = "ret"
          /\ allocation' = allocation
          /\ max_claim' = max_claim]_vars

\* A memory request by a user with no memory claim, a whole step free.
C11_Witness ==
    /\ AtReturn("request", "ClaimExceeded")
    /\ op.resource = "Memory"
    /\ resources["Memory"] >= AllocationAmount("Memory")
    /\ max_claim[op.user]["Memory"] = 0

\* ---------------------------------------------------------------- C12
\* C12: a release by a user whose allocation is below the decrement
\* returns InsufficientAllocationToRelease and leaves resources,
\* allocation and max_claim as they were; no release takes an allocation
\* below zero.
C12_ReleaseRefused ==
    [][Starts("release") =>
        /\ allocation[op'.user][op'.resource] < AllocationAmount(op'.resource)
            => /\ result' = "InsufficientAllocationToRelease"
               /\ resources' = resources
               /\ allocation' = allocation
               /\ max_claim' = max_claim
        /\ allocation'[op'.user][op'.resource] >= 0]_vars

\* A refused release by a user that has a claim and holds nothing.
C12_Witness ==
    /\ AtReturn("release", "InsufficientAllocationToRelease")
    /\ max_claim[op.user][op.resource] > 0
    /\ allocation[op.user][op.resource] = 0

\* ---------------------------------------------------------------- C13
\* C13: update_max_claim with a new value below the allocation returns
\* MaxClaimBelowCurrentAllocation and leaves resources, allocation and
\* max_claim as they were.
C13_BelowAllocationRejected ==
    [][(/\ Starts("update_max_claim")
        /\ op'.new_max < allocation[op'.user][op'.resource])
       => /\ result' = "MaxClaimBelowCurrentAllocation"
          /\ resources' = resources
          /\ allocation' = allocation
          /\ max_claim' = max_claim]_vars

\* A rejected lowering of the claim of a user holding its whole claim.
C13_Witness ==
    /\ AtReturn("update_max_claim", "MaxClaimBelowCurrentAllocation")
    /\ op.new_max < allocation[op.user][op.resource]
    /\ max_claim[op.user][op.resource] = allocation[op.user][op.resource]

\* ---------------------------------------------------------------- C14
\* C14: update_max_claim with a new value at or above the allocation
\* always writes max_claim[u][k] = new value and returns success; when
\* is_safe_state then says unsafe the claim stays written and the success
\* carries the unsafe-state warning, and it carries it in no other case.
C14_CommitsUnconditionally ==
    [][(/\ Starts("update_max_claim")
        /\ op'.new_max >= allocation[op'.user][op'.resource])
       => /\ max_claim' = [max_claim EXCEPT
                               ![op'.user][op'.resource] = op'.new_max]
          /\ allocation' = allocation
          /\ result' \in {"ok", "ok_unsafe_warning"}
          /\ (result' = "ok_unsafe_warning") <=>
                ~IsSafe(resources', allocation', max_claim')]_vars

\* A claim committed with the warning: the ledger it leaves is unsafe.
C14_Witness ==
    /\ AtReturn("update_max_claim", "ok_unsafe_warning")
    /\ max_claim[op.user][op.resource] = op.new_max
    /\ ~IsSafe(resources, allocation, max_claim)

C16_ValidationError ==
    [][(/\ op.name = "none" /\ op'.name # "none"
        /\ (op'.user \notin UserSet \/ op'.resource \notin KindSet))
       => /\ result' = "ValidationError"
          /\ resources' = resources
          /\ allocation' = allocation
          /\ max_claim' = max_claim]_vars

\* ---------------------------------------------------------------- C17
\* C17: once the program has been asked to close, the monitor eventually
\* stops for good: from some point on it never runs another tick.
C17_MonitorStops ==
    (pc.main = "closed") ~> [](pc.monitor = "sleep")

\* ---------------------------------------------------------------- C18
\* C18 (scenario A): while the other two users hold nothing, each of the
\* first six CPU requests of admin succeeds, and when the sixth has been
\* granted four of the ten increments are left available and
\* is_safe_state has reported safe with the sequence admin, User1, User2.
C18_ScenarioA ==
    (/\ pc.worker = "ret" /\ op.name = "request"
     /\ op.user = "admin" /\ op.resource = "CPU"
     /\ allocation["User1"]["CPU"] = 0 /\ allocation["User2"]["CPU"] = 0
     /\ pre.taken /\ pre.allocation["admin"]["CPU"] < 6)
    => /\ result = "ok"
       /\ allocation["admin"]["CPU"] = 6 =>
            /\ resources["CPU"] = 4
            /\ pre.verdict.is_safe
            /\ pre.verdict.safe_sequence = <<"admin", "User1", "User2">>

\* ---------------------------------------------------------------- C19
\* C19: a granted request changes two entries of the ledger and no other:
\* the caller's allocation of the kind is one increment higher than the
\* call found it, and the available figure of the kind one increment lower.
C19_RequestFrame ==
    AtReturn("request", "ok") =>
        /\ allocation = Allocate(pre.allocation, op.user, op.resource)
        /\ max_claim = pre.max_claim
        /\ resources = [pre.resources EXCEPT
                            ![op.resource] = @ - AllocationAmount(op.resource)]

\* ---------------------------------------------------------------- C20
\* C20: a successful release changes two entries of the ledger and no
\* other: the caller's allocation of the kind is one decrement lower and
\* the available figure of the kind higher by the same amount.
C20_ReleaseFrame ==
    [][(Starts("release") /\ result' = "ok")
       => /\ allocation' = Deallocate(allocation, op'.user, op'.resource)
          /\ max_claim' = max_claim
          /\ resources' = [resources EXCEPT
                              ![op'.resource] = @ + AllocationAmount(op'.resource)]]_vars

\* ---------------------------------------------------------------- C21
\* The empty tuple stands for None (line 177); with users registered a
\* safe sequence is never empty.
NoSequence == <<>>

\* C21: is_safe_state returns a sequence exactly when its verdict is
\* safe; a returned sequence holds every registered user once and is a
\* feasible completion order of the ledger evaluated.
C21_SequenceIffSafe ==
    op.name = "is_safe_state" =>
        /\ result.is_safe <=> result.safe_sequence # NoSequence
        /\ result.is_safe =>
              /\ result.safe_sequence \in Orders(SafetyUserSet)
              /\ FeasibleFrom(result.safe_sequence, 1,
                              resources, allocation, max_claim)

\* An unsafe verdict reached after some user had already been put in the
\* sequence: admin can finish, the other two cannot.
C21_Witness ==
    /\ op.name = "is_safe_state"
    /\ ~result.is_safe
    /\ Finish(SafetyUsers, resources, allocation, max_claim).safe_sequence
            = <<"admin">>

\* ---------------------------------------------------------------- C22
\* A step that is one evaluation of is_safe_state and nothing else: the
\* monitor's (line 308), or the gate of a request that found the ledger
\* safe (line 215).
EvaluationStep ==
    \/ pc.monitor = "check" /\ pc'.monitor = "sleep"
    \/ pc.worker = "gate" /\ pc'.worker = "commit"

C23_TickChangesAvailableOnly ==
    [][pc'.monitor # pc.monitor =>
            /\ allocation' = allocation
            /\ max_claim' = max_claim
            /\ resources' \in Probes]_vars

\* The monitor is inside a tick whose reading makes the ledger unsafe, and
\* the reading stands.
C23_Witness ==
    /\ pc.monitor = "check"
    /\ ~IsSafe(resources, allocation, max_claim)

\* ---------------------------------------------------------------- C24
\* C24: a request during which the probe raised does not leave its
\* tentative allocation behind: when the call ends without a success
\* result, the allocation is the one the call found.
C24_ProbeFailureLeavesNoTentative ==
    AtReturn("request", "ProbeError") => allocation = pre.allocation

\* ---------------------------------------------------------------- C25
\* C25: the allocation table never shows a tentative allocation that is
\* then rolled back: when a request is refused as unsafe, the row of the
\* requesting user, rendered while a request stood between its tentative
\* allocation and its verdict and still showing the row as it stands, is
\* the row the call found.
C25_ReaderSeesNoTentative ==
    [][(/\ pc.worker = "gate" /\ pc'.worker = "ret"
        /\ result' = "WouldCauseUnsafeState"
        /\ pc.reader.seen
        /\ pc.reader.tentative
        /\ pc.reader.user = op.user
        /\ pc.reader.shown = allocation[op.user])
       => pc.reader.shown = pre.allocation[op.user]]_vars

\* ---------------------------------------------------------------- C26
\* C26: when the probe raises during a monitor tick, the mutex is free
\* again and every entry of the available vector has the value it had
\* before that probe.
C26_FailedTickKeepsLastKnown ==
    [][(pc.monitor # "failed" /\ pc'.monitor = "failed")
       => /\ mutex' = Free
          /\ resources' = resources]_vars

\* ---------------------------------------------------------------- C27
\* C27: under fair scheduling a call that has the mutex returns, whoever
\* holds the mutex (a call on any of its paths, a monitor tick) releases
\* it, and the while loop of is_safe_state runs at most once more than
\* there are users.
C27_CallsReturn ==
    /\ (mutex # Free) ~> (mutex = Free /\ pc.worker = "out")
    /\ [](PassCount(Users,
                    [work |-> resources,
                     finish |-> [user \in UserSet |-> FALSE],
                     safe_sequence |-> <<>>, found |-> FALSE],
                    allocation, max_claim) <= Len(Users) + 1)

\* A call is inside the mutex after an evaluation that needed every pass
\* the bound allows: the first user finished only in the second pass.
C27_Witness ==
    /\ pc.worker = "commit"
    /\ mutex = "worker"
    /\ PassCount(Users,
                 [work |-> resources,
                  finish |-> [user \in UserSet |-> FALSE],
                  safe_sequence |-> <<>>, found |-> FALSE],
                 allocation, max_claim) = Len(Users) + 1

\* ---------------------------------------------------------------- C28
\* C28: a request is refused for availability before its claim is looked
\* at, and for its claim before anything is allocated: with too little
\* available the result is InsufficientAvailability whatever the claim;
\* the tentative allocation and the gate are reached only when both
\* checks have passed.
C28_ChecksInOrder ==
    [][Starts("request") =>
        LET user == op'.user
            resource == op'.resource
            short == NoUnits(resources', resource)
                        \/ NotEnough(resources', resource)
            over == ExceedsMaxClaim(allocation, max_claim, user, resource)
        IN /\ short => /\ result' = "InsufficientAvailability"
                       /\ pc'.worker = "ret"
                       /\ allocation' = allocation
           /\ (~short /\ over) => /\ result' = "ClaimExceeded"
                                  /\ pc'.worker = "ret"
                                  /\ allocation' = allocation
           /\ pc'.worker = "gate" <=> (~short /\ ~over)
           /\ pc'.worker = "gate" =>
                    allocation' = Allocate(allocation, user, resource)]_vars

\* A request refused for availability that its claim would have refused
\* too.
C28_Witness ==
    /\ AtReturn("request", "InsufficientAvailability")
    /\ NotEnough(resources, op.resource)
    /\ ExceedsMaxClaim(allocation, max_claim, op.user, op.resource)

\* ---------------------------------------------------------------- C29
\* C29: a monitor tick logs a change of kind k exactly when the new
\* reading differs from the old one by more than a tenth of the old one.
C29_DriftExactlyAboveTenth ==
    op.name = "system_monitor" =>
        \A res \in KindSet :
            res \in result <=>
                LET old == pre.resources[res]
                    new == resources[res]
                IN 10 * (IF new < old THEN old - new ELSE new - old) > old

\* C30: no log write and no save happens in a step that runs under the
\* mutex: a step of request_resource, release_resource, update_max_claim
\* or system_monitor that calls log_event or save_state begins and ends
\* with the mutex free.
C30_WritesAfterRelease ==
    [][(log_event \/ save_state) => (mutex = Free /\ mutex' = Free)]_vars

\* ---------------------------------------------------------------- C31
\* C31: the monitor does not hold the mutex while it sleeps between two
\* ticks (line 297 stands before the with block of line 298): whenever
\* it is asleep the mutex is free or held by a call of a worker.
C31_MonitorSleepsUnlocked ==
    pc.monitor = "sleep" => mutex # "monitor"

\* A request took the mutex while the monitor slept and stands between
\* its tentative allocation and its verdict.
C31_Witness ==
    /\ pc.monitor = "sleep"
    /\ mutex = "worker"
    /\ op.name = "request"
    /\ pc.worker = "gate"

\* ---------------------------------------------------------------- C32
\* The claims with every claim below its allocation raised to the
\* allocation: the need of such a kind is then 0.
NeedAtLeastZero(alloc, maxc) ==
    [user \in UserSet |->
        [res \in KindSet |-> Max(maxc[user][res], alloc[user][res])]]

\* C32: is_safe_state treats a negative need (an allocation above its
\* claim) as a need of 0: the users it marks finished, and its verdict,
\* are those it would reach with every such need counted as 0, so a kind
\* of negative need never keeps a user from being marked finished.
C32_NegativeNeedIsZero ==
    op.name = "is_safe_state" =>
        /\ pre.finish = Finish(Users, resources, allocation,
                               NeedAtLeastZero(allocation, max_claim)).finish
        /\ result.is_safe <=>
               Completable(UserSet, resources, allocation,
                           NeedAtLeastZero(allocation, max_claim))
        /\ \A user \in UserSet :
              (\A res \in KindSet :
                    max_claim[user][res] - allocation[user][res] <= 0)
                  => pre.finish[user]

\* admin holds more CPU than its claim while nothing of CPU is available,
\* needs Memory that only User1's allocation covers, and is marked
\* finished.
C32_Witness ==
    /\ op.name = "is_safe_state"
    /\ allocation["admin"]["CPU"] > max_claim["admin"]["CPU"]
    /\ resources["CPU"] = 0
    /\ max_claim["admin"]["Memory"] - allocation["admin"]["Memory"]
           > resources["Memory"]
    /\ pre.finish["admin"]
    /\ result.is_safe

====
